---- MODULE Spec2Model ----
(***************************************************************************)
(* Model of services/prediction_service.py (PredictionService) and of the  *)
(* way it uses YahooFinanceClient.fetch_ohlcv_data.                        *)
(*                                                                         *)
(* Numbers.  A Python/numpy float is modelled as a record                  *)
(*     [nan |-> BOOLEAN, v |-> Int]                                        *)
(* where v counts units of 1/SCALE.  Every arithmetic operation rounds its *)
(* result toward zero to that resolution, as IEEE arithmetic rounds every  *)
(* result to 53 bits (sign-symmetrically).  NaN is a value of its own and  *)
(* propagates as in IEEE: arithmetic on NaN is NaN, comparisons are false. *)
(*                                                                         *)
(* Frames.  A pandas DataFrame / its "Close" column is a sequence of rows  *)
(* [date |-> Int, v |-> float]; dates are trading-day numbers.             *)
(***************************************************************************)
EXTENDS Integers, Sequences, FiniteSets, TLC

\* ------------------------------------------------------------------ bounds
SCALE == 10000
MaxPrice == 2
MaxLen == 3
MaxLookback == 3
MaxHorizon == 2
MaxFuture == 1

\* ---------------------------------------------------------- float arithmetic
F(x) == [nan |-> FALSE, v |-> x]
NaN == [nan |-> TRUE, v |-> 0]
Zero == F(0)
One == F(SCALE)
FromInt(i) == F(i * SCALE)

AbsInt(a) == IF a < 0 THEN -a ELSE a

\* quotient rounded toward zero (sign-symmetric, like IEEE rounding)
TruncDiv(a, b) ==
    IF (a >= 0) = (b > 0) THEN AbsInt(a) \div AbsInt(b)
    ELSE -(AbsInt(a) \div AbsInt(b))

FAdd(a, b) == IF a.nan \/ b.nan THEN NaN ELSE F(a.v + b.v)
FSub(a, b) == IF a.nan \/ b.nan THEN NaN ELSE F(a.v - b.v)
FMul(a, b) == IF a.nan \/ b.nan THEN NaN ELSE F(TruncDiv(a.v * b.v, SCALE))
\* the divisor is never zero on any path of the program modelled here
FDiv(a, b) == IF a.nan \/ b.nan THEN NaN ELSE F(TruncDiv(a.v * SCALE, b.v))
FAbs(a) == IF a.nan THEN NaN ELSE F(AbsInt(a.v))
FGt(a, b) == ~a.nan /\ ~b.nan /\ a.v > b.v

\* Python's builtin max(a, b): keeps a unless b > a
PyMax(a, b) == IF FGt(b, a) THEN b ELSE a

RECURSIVE ISqrtFrom(_, _, _)
ISqrtFrom(x, lo, hi) ==
    IF lo >= hi THEN lo
    ELSE LET mid == (lo + hi + 1) \div 2
         IN IF mid * mid <= x THEN ISqrtFrom(x, mid, hi)
            ELSE ISqrtFrom(x, lo, mid - 1)

\* largest r with r*r <= x
ISqrt(x) == ISqrtFrom(x, 0, IF x < 46340 THEN x ELSE 46340)

\* np.sqrt: NaN for a negative or NaN argument
NpSqrt(a) == IF a.nan \/ a.v < 0 THEN NaN ELSE F(ISqrt(a.v * SCALE))

\* exp(-1) and the argument from which exp(-z) is 0 at the model's resolution
ExpNegOne == (SCALE * 3678) \div 10000
ExpUnderflow == 10

RECURSIVE ExpSeries(_, _, _, _)
\* 1 + f + f^2/2! + ... : term is the current term, i its index
ExpSeries(f, term, i, n) ==
    IF i > n \/ term = 0 THEN 0
    ELSE term + ExpSeries(f, (term * f) \div (SCALE * i), i + 1, n)

RECURSIVE PowNegOne(_)
PowNegOne(k) == IF k = 0 THEN SCALE ELSE (PowNegOne(k - 1) * ExpNegOne) \div SCALE

\* np.exp(-z) for z >= 0; NaN for NaN
NpExpNeg(z) ==
    IF z.nan THEN NaN
    ELSE IF z.v \div SCALE >= ExpUnderflow THEN Zero
    ELSE LET k == z.v \div SCALE
             f == z.v % SCALE
             ef == (SCALE * SCALE) \div ExpSeries(f, SCALE, 1, 8)
         IN F((PowNegOne(k) * ef) \div SCALE)

\* ------------------------------------------------------------ list helpers
RECURSIVE SumList(_)
SumList(l) == IF l = <<>> THEN Zero ELSE FAdd(l[1], SumList(Tail(l)))

\* np.mean of a list: NaN for an empty list
NpMean(l) ==
    IF l = <<>> THEN NaN
    ELSE LET s == SumList(l) IN IF s.nan THEN NaN ELSE F(TruncDiv(s.v, Len(l)))

\* Python slice l[start:] with a possibly negative start
PySliceFrom(l, start) ==
    LET n == Len(l)
        s0 == IF start < 0 THEN start + n ELSE start
        s1 == IF s0 < 0 THEN 0 ELSE IF s0 > n THEN n ELSE s0
    IN SubSeq(l, s1 + 1, n)

\* ----------------------------------------------------------- pandas helpers
Dates(s) == {s[i].date : i \in DOMAIN s}
Values(s) == [i \in DOMAIN s |-> s[i].v]
ValueAt(s, d) == LET i == CHOOSE j \in DOMAIN s : s[j].date = d IN s[i].v

RECURSIVE SortedDates(_)
SortedDates(S) ==
    IF S = {} THEN <<>>
    ELSE LET m == CHOOSE x \in S : \A y \in S : x <= y
         IN <<m>> \o SortedDates(S \ {m})

\* DataFrame.sort_index(): rows in ascending date order (dates are unique)
SortIndex(df) ==
    LET idx == SortedDates(Dates(df))
    IN [k \in 1..Len(idx) |-> [date |-> idx[k], v |-> ValueAt(df, idx[k])]]

\* df[df.index.date <= requested_date]
FilterOnOrBefore(df, requested) == SelectSeq(df, LAMBDA r : r.date <= requested)

\* DataFrame.tail(n) / Series.tail(n): the last n rows; for a negative n all
\* rows but the first -n; for n = 0 no row
DfTail(df, n) == IF n = 0 THEN <<>> ELSE PySliceFrom(df, -n)

\* Series.pct_change(): the first entry has no predecessor and is NaN
PctChange(s) ==
    [i \in DOMAIN s |->
        [date |-> s[i].date,
         v |-> IF i = 1 THEN NaN ELSE FSub(FDiv(s[i].v, s[i - 1].v), One)]]

\* a - b on two Series: aligned on the union of the indexes, NaN where a
\* date is missing on either side
SeriesSub(a, b) ==
    LET idx == SortedDates(Dates(a) \cup Dates(b))
    IN [k \in 1..Len(idx) |->
          [date |-> idx[k],
           v |-> IF idx[k] \in Dates(a) /\ idx[k] \in Dates(b)
                 THEN FSub(ValueAt(a, idx[k]), ValueAt(b, idx[k]))
                 ELSE NaN]]

DropNa(s) == SelectSeq(s, LAMBDA r : ~r.v.nan)

RECURSIVE SumSqDev(_, _)
SumSqDev(l, m) ==
    IF l = <<>> THEN Zero
    ELSE LET d == FSub(l[1], m) IN FAdd(FMul(d, d), SumSqDev(Tail(l), m))

\* Series.std() (sample standard deviation, ddof = 1): NaN below two points
Std(s) ==
    LET l == Values(s)
        n == Len(l)
    IN IF n < 2 THEN NaN
       ELSE LET sq == SumSqDev(l, NpMean(l))
            IN IF sq.nan THEN NaN ELSE NpSqrt(F(TruncDiv(sq.v, n - 1)))

\* ------------------------------------------------- PredictionService state
k == 10
number_of_future_trading_days == 5

\* ------------------------------------------------- _roll_forward_forecast
\* the guard of the loop body: the working list is shorter than the window
WindowTooShort(prices, window) == Len(prices) < window

\* variant: the estimate is not fed back (a plain moving average)
AppendEstimate_NotFedBack(prices, next_price) == prices

\* prices.append(next_price): the estimate joins the working list
AppendEstimate(prices, next_price) == Append(prices, next_price)

RECURSIVE RollLoop(_, _, _, _)
RollLoop(prices, preds, window, remaining) ==
    IF remaining <= 0 THEN [raised |-> "none", ret |-> preds]
    ELSE IF WindowTooShort(prices, window)
         THEN [raised |-> "ValueError", ret |-> <<>>]
    ELSE LET next_price == NpMean(PySliceFrom(prices, -window))
         IN RollLoop(AppendEstimate(prices, next_price),
                     Append(preds, next_price), window, remaining - 1)

roll_forward_forecast(last_known_prices, window, steps) ==
    RollLoop(last_known_prices, <<>>, window, steps)

\* ------------------------------------------------------ _cumulative_return
\* variant: the first element of the path instead of the last
EndPrice_First(future_prices) == future_prices[1]

\* future_prices[-1]
EndPrice(future_prices) == future_prices[Len(future_prices)]

cumulative_return(current_price, future_prices) ==
    IF future_prices = <<>> THEN [raised |-> "none", ret |-> Zero]
    ELSE IF ~current_price.nan /\ current_price.v = 0
         THEN [raised |-> "ZeroDivisionError", ret |-> Zero]
    ELSE [raised |-> "none",
          ret |-> FSub(FDiv(EndPrice(future_prices), current_price), One)]

\* --------------------------------------------------- _calculate_confidence
VolFloor == F(SCALE \div 10000)

\* variant: the subject's own daily changes, the benchmark left out
SpreadHist_SubjectOnly(s_close, i_close, lookback_days) ==
    DfTail(DropNa(PctChange(s_close)), lookback_days)

SpreadHist(s_close, i_close, lookback_days) ==
    DfTail(DropNa(SeriesSub(PctChange(s_close), PctChange(i_close))), lookback_days)

Denom(spread_hist) == PyMax(Std(spread_hist), VolFloor)

ZScore(spread, denom, horizon_days) ==
    FDiv(FAbs(spread), FMul(denom, NpSqrt(FromInt(horizon_days))))

Sigmoid(z) == FDiv(One, FAdd(One, NpExpNeg(z)))

calculate_confidence(s_close, i_close, spread, lookback_days, horizon_days) ==
    Sigmoid(ZScore(spread, Denom(SpreadHist(s_close, i_close, lookback_days)),
                   horizon_days))

\* ------------------------------------------- _calculate_future_prediction
calculate_future_prediction(stock_close, sp500_close, lookback_days, horizon_days) ==
    LET fail(e) == [raised |-> e, stock_cumulative |-> Zero, sp500_cumulative |-> Zero]
    IN IF stock_close = <<>> \/ sp500_close = <<>> THEN fail("IndexError")
       ELSE LET stock_latest == stock_close[Len(stock_close)].v
                sp500_latest == sp500_close[Len(sp500_close)].v
                stock_pred == roll_forward_forecast(Values(stock_close), lookback_days, horizon_days)
                sp500_pred == roll_forward_forecast(Values(sp500_close), lookback_days, horizon_days)
            IN IF stock_pred.raised # "none" THEN fail(stock_pred.raised)
               ELSE IF sp500_pred.raised # "none" THEN fail(sp500_pred.raised)
               ELSE LET sc == cumulative_return(stock_latest, stock_pred.ret)
                        ic == cumulative_return(sp500_latest, sp500_pred.ret)
                    IN IF sc.raised # "none" THEN fail(sc.raised)
                       ELSE IF ic.raised # "none" THEN fail(ic.raised)
                       ELSE [raised |-> "none", stock_cumulative |-> sc.ret,
                             sp500_cumulative |-> ic.ret]

\* ------------------------------------------------------------------ predict
\* an optional integer argument: omitted (None) or given
None == [given |-> FALSE, val |-> 0]
Some(x) == [given |-> TRUE, val |-> x]

\* `arg or default`: None and 0 are both falsy
OrDefault(arg, default) == IF arg.given /\ arg.val # 0 THEN arg.val ELSE default

\* variant: only the service's own exception types are caught
Catches_ServiceErrorsOnly(exc) == exc \in {"TickerNotFoundError", "DataFetchError"}

\* the bare `except:` around the fetch catches every exception
Catches(exc) == TRUE

\* variant: the gate is off by one
NotEnoughHistory_OffByOne(stock, lookback) == Len(stock) + 1 < lookback

\* len(stock_data) < lookback_days
NotEnoughHistory(stock, lookback) == Len(stock) < lookback

\* variant: a zero spread counts as outperformance
Outperform_NonStrict(spread) == ~spread.nan /\ spread.v >= 0

\* outperform = spread > 0
Outperform(spread) == FGt(spread, Zero)

NoResult == [returned |-> FALSE, prediction |-> FALSE, confidence |-> Zero]
ForecastResult(p, c) == [returned |-> TRUE, prediction |-> p, confidence |-> c]

NoFetch == [outcome |-> "pending", sp500 |-> <<>>, stock |-> <<>>]
NoCumulative == [stock |-> Zero, sp500 |-> Zero]
NoCall == [fn |-> "none", prices |-> <<>>, window |-> 0, steps |-> 0,
           current |-> Zero, s_close |-> <<>>, i_close |-> <<>>, spread |-> Zero,
           raised |-> "none", ret_list |-> <<>>, ret |-> Zero]

\* ---------------------------------------------------------------- inputs
Prices == 1..MaxPrice
PriceLists == UNION {[1..n -> Prices] : n \in 0..MaxLen}
LookbackArgs == {None} \cup {Some(x) : x \in -1..MaxLookback}
HorizonArgs == {None} \cup {Some(x) : x \in -1..MaxHorizon}
RequestedDates == {0}
FetchErrors == {"TickerNotFoundError", "DataFetchError", "Exception"}
\* a frame of consecutive trading days that ends on day last
MakeFrame(prices, last) ==
    [i \in DOMAIN prices |-> [date |-> last - (Len(prices) - i), v |-> FromInt(prices[i])]]
FloatLists == UNION {[1..n -> {FromInt(p) : p \in Prices} \cup {F(SCALE \div 2)}] : n \in 0..2}
SpreadSamples == {F(-SCALE), F(-1), Zero, F(1), F(SCALE \div 2), F(3 * SCALE)}

VARIABLES pc, args, requested_date, lookback_days, horizon_days, fetch_calls,
          fetched, stock_data, sp500_data, stock_close, sp500_close,
          cumulative, forecast_calls, result, raised, unit

vars == <<pc, args, requested_date, lookback_days, horizon_days, fetch_calls,
          fetched, stock_data, sp500_data, stock_close, sp500_close,
          cumulative, forecast_calls, result, raised, unit>>

Init ==
    /\ pc = "idle"
    /\ args = [lookback |-> None, horizon |-> None]
    /\ requested_date = 0
    /\ lookback_days = k
    /\ horizon_days = number_of_future_trading_days
    /\ fetch_calls = 0
    /\ fetched = NoFetch
    /\ stock_data = <<>>
    /\ sp500_data = <<>>
    /\ stock_close = <<>>
    /\ sp500_close = <<>>
    /\ cumulative = NoCumulative
    /\ forecast_calls = 0
    /\ result = NoResult
    /\ raised = "none"
    /\ unit = NoCall

\* predict(), lines 73-81: the defaults are applied and the fetch prepared
Predict(lb, hz, rd) ==
    /\ pc = "idle"
    /\ pc' = "fetch"
    /\ args' = [lookback |-> lb, horizon |-> hz]
    /\ requested_date' = rd
    /\ lookback_days' = OrDefault(lb, k)
    /\ horizon_days' = OrDefault(hz, number_of_future_trading_days)
    /\ fetch_calls' = 0
    /\ fetched' = NoFetch
    /\ stock_data' = <<>>
    /\ sp500_data' = <<>>
    /\ stock_close' = <<>>
    /\ sp500_close' = <<>>
    /\ cumulative' = NoCumulative
    /\ forecast_calls' = 0
    /\ result' = NoResult
    /\ raised' = "none"
    /\ unit' = NoCall

\* fetch_ohlcv_data returns two frames
FetchReturns(sp, st, future) ==
    /\ pc = "fetch"
    /\ fetch_calls' = fetch_calls + 1
    /\ fetched' = [outcome |-> "frames",
                   sp500 |-> MakeFrame(sp, requested_date + future),
                   stock |-> MakeFrame(st, requested_date + future)]
    /\ stock_data' = fetched'.stock
    /\ sp500_data' = fetched'.sp500
    /\ pc' = "fetched"
    /\ UNCHANGED <<args, requested_date, lookback_days, horizon_days, stock_close,
                   sp500_close, cumulative, forecast_calls, result, raised, unit>>

\* the collaborator hands back no subject frame: lines 91-93
FetchReturnsNone ==
    /\ pc = "fetch"
    /\ fetch_calls' = fetch_calls + 1
    /\ fetched' = [NoFetch EXCEPT !.outcome = "None"]
    /\ result' = ForecastResult(FALSE, Zero)
    /\ pc' = "done"
    /\ UNCHANGED <<args, requested_date, lookback_days, horizon_days, stock_data,
                   sp500_data, stock_close, sp500_close, cumulative,
                   forecast_calls, raised, unit>>

\* fetch_ohlcv_data raises: lines 88-89
FetchRaises(exc) ==
    /\ pc = "fetch"
    /\ fetch_calls' = fetch_calls + 1
    /\ fetched' = [NoFetch EXCEPT !.outcome = exc]
    /\ IF Catches(exc)
       THEN result' = ForecastResult(FALSE, Zero) /\ raised' = raised
       ELSE raised' = exc /\ result' = result
    /\ pc' = "done"
    /\ UNCHANGED <<args, requested_date, lookback_days, horizon_days, stock_data,
                   sp500_data, stock_close, sp500_close, cumulative,
                   forecast_calls, unit>>

\* lines 97-98
Filter ==
    /\ pc = "fetched"
    /\ stock_data' = FilterOnOrBefore(stock_data, requested_date)
    /\ sp500_data' = FilterOnOrBefore(sp500_data, requested_date)
    /\ pc' = "filtered"
    /\ UNCHANGED <<args, requested_date, lookback_days, horizon_days, fetch_calls,
                   fetched, stock_close, sp500_close, cumulative, forecast_calls,
                   result, raised, unit>>

\* lines 100-102
InsufficientData ==
    /\ pc = "filtered"
    /\ NotEnoughHistory(stock_data, lookback_days)
    /\ result' = ForecastResult(FALSE, Zero)
    /\ pc' = "done"
    /\ UNCHANGED <<args, requested_date, lookback_days, horizon_days, fetch_calls,
                   fetched, stock_data, sp500_data, stock_close, sp500_close,
                   cumulative, forecast_calls, raised, unit>>

\* lines 104-108
Window ==
    /\ pc = "filtered"
    /\ ~NotEnoughHistory(stock_data, lookback_days)
    /\ stock_close' = DfTail(SortIndex(stock_data), lookback_days)
    /\ sp500_close' = DfTail(SortIndex(sp500_data), lookback_days)
    /\ pc' = "windowed"
    /\ UNCHANGED <<args, requested_date, lookback_days, horizon_days, fetch_calls,
                   fetched, stock_data, sp500_data, cumulative, forecast_calls,
                   result, raised, unit>>

\* line 110
Forecast ==
    /\ pc = "windowed"
    /\ LET r == calculate_future_prediction(stock_close, sp500_close,
                                            lookback_days, horizon_days)
       IN /\ forecast_calls' = forecast_calls + 1
          /\ raised' = r.raised
          /\ cumulative' = [stock |-> r.stock_cumulative, sp500 |-> r.sp500_cumulative]
          /\ pc' = IF r.raised = "none" THEN "forecast" ELSE "done"
    /\ UNCHANGED <<args, requested_date, lookback_days, horizon_days, fetch_calls,
                   fetched, stock_data, sp500_data, stock_close, sp500_close,
                   result, unit>>

\* lines 112-119
Conclude ==
    /\ pc = "forecast"
    /\ LET spread == FSub(cumulative.stock, cumulative.sp500)
       IN result' = ForecastResult(Outperform(spread),
                        calculate_confidence(stock_close, sp500_close, spread,
                                             lookback_days, horizon_days))
    /\ pc' = "done"
    /\ UNCHANGED <<args, requested_date, lookback_days, horizon_days, fetch_calls,
                   fetched, stock_data, sp500_data, stock_close, sp500_close,
                   cumulative, forecast_calls, raised, unit>>

\* predict has returned or raised; the service keeps no state between calls
Return ==
    /\ pc \in {"done", "unit_done"}
    /\ pc' = "idle"
    /\ args' = [lookback |-> None, horizon |-> None]
    /\ requested_date' = 0
    /\ lookback_days' = k
    /\ horizon_days' = number_of_future_trading_days
    /\ fetch_calls' = 0
    /\ fetched' = NoFetch
    /\ stock_data' = <<>>
    /\ sp500_data' = <<>>
    /\ stock_close' = <<>>
    /\ sp500_close' = <<>>
    /\ cumulative' = NoCumulative
    /\ forecast_calls' = 0
    /\ result' = NoResult
    /\ raised' = "none"
    /\ unit' = NoCall

predictVars == <<args, requested_date, lookback_days, horizon_days, fetch_calls,
                 fetched, stock_data, sp500_data, stock_close, sp500_close,
                 cumulative, forecast_calls, result, raised>>

\* a direct call of the static method, as the unit tests make
CallRollForward(prices, window, steps) ==
    /\ pc = "idle"
    /\ LET r == roll_forward_forecast([i \in DOMAIN prices |-> FromInt(prices[i])],
                                      window, steps)
       IN unit' = [NoCall EXCEPT !.fn = "_roll_forward_forecast",
                                 !.prices = [i \in DOMAIN prices |-> FromInt(prices[i])],
                                 !.window = window, !.steps = steps,
                                 !.raised = r.raised, !.ret_list = r.ret]
    /\ pc' = "unit_done"
    /\ UNCHANGED predictVars

CallCumulativeReturn(current, path) ==
    /\ pc = "idle"
    /\ LET r == cumulative_return(current, path)
       IN unit' = [NoCall EXCEPT !.fn = "_cumulative_return", !.current = current,
                                 !.prices = path, !.raised = r.raised, !.ret = r.ret]
    /\ pc' = "unit_done"
    /\ UNCHANGED predictVars

CallCalculateConfidence(s, i, spread, lb, hz) ==
    /\ pc = "idle"
    /\ Len(s) = Len(i)
    /\ LET sc == MakeFrame(s, 0)
           ic == MakeFrame(i, 0)
       IN unit' = [NoCall EXCEPT !.fn = "_calculate_confidence", !.s_close = sc,
                                 !.i_close = ic, !.spread = spread,
                                 !.window = lb, !.steps = hz,
                                 !.ret = calculate_confidence(sc, ic, spread, lb, hz)]
    /\ pc' = "unit_done"
    /\ UNCHANGED predictVars

Next ==
    \/ /\ pc = "idle"
       /\ \E lb \in LookbackArgs, hz \in HorizonArgs, rd \in RequestedDates : Predict(lb, hz, rd)
    \/ /\ pc = "fetch"
       /\ \E sp \in PriceLists, st \in PriceLists, future \in 0..MaxFuture :
             FetchReturns(sp, st, future)
    \/ FetchReturnsNone
    \/ /\ pc = "fetch"
       /\ \E exc \in FetchErrors : FetchRaises(exc)
    \/ Filter
    \/ InsufficientData
    \/ Window
    \/ Forecast
    \/ Conclude
    \/ Return
    \/ /\ pc = "idle"
       /\ \E prices \in PriceLists, window \in -1..MaxLookback, steps \in -1..MaxHorizon :
             CallRollForward(prices, window, steps)
    \/ /\ pc = "idle"
       /\ \E current \in {Zero} \cup {FromInt(p) : p \in Prices}, path \in FloatLists :
             CallCumulativeReturn(current, path)
    \/ /\ pc = "idle"
       /\ \E n \in 1..MaxLen : \E s \in [1..n -> Prices], i \in [1..n -> Prices] :
             \E spread \in SpreadSamples, lb \in 1..MaxLookback, hz \in 1..MaxHorizon :
                CallCalculateConfidence(s, i, spread, lb, hz)

Spec == Init /\ [][Next]_vars

\* predict from the fetched frames on (lines 96-119) as one function of its
\* inputs: what a second call with these frames returns
predict_outcome(sp500_fetched, stock_fetched, requested, lookback, horizon) ==
    LET stock == FilterOnOrBefore(stock_fetched, requested)
        sp500 == FilterOnOrBefore(sp500_fetched, requested)
    IN IF NotEnoughHistory(stock, lookback)
       THEN [raised |-> "none", computed |-> FALSE, result |-> ForecastResult(FALSE, Zero)]
       ELSE LET sc == DfTail(SortIndex(stock), lookback)
                ic == DfTail(SortIndex(sp500), lookback)
                r == calculate_future_prediction(sc, ic, lookback, horizon)
                spread == FSub(r.stock_cumulative, r.sp500_cumulative)
            IN IF r.raised # "none"
               THEN [raised |-> r.raised, computed |-> FALSE, result |-> NoResult]
               ELSE [raised |-> "none", computed |-> TRUE,
                     result |-> ForecastResult(Outperform(spread),
                                   calculate_confidence(sc, ic, spread, lookback, horizon))]

\* ------------------------------------------------------------------ claims
\* rows of a fetched frame dated on or before the requested date
FilteredLen(frame) == Cardinality({i \in DOMAIN frame : frame[i].date <= requested_date})

\* predict went through the compute path and returned
Computed == pc = "done" /\ forecast_calls = 1 /\ raised = "none"

\* the spread of the finished call, as integers (NaN: no number)
SpreadIsNumber == ~cumulative.stock.nan /\ ~cumulative.sp500.nan
SpreadUnits == cumulative.stock.v - cumulative.sp500.v

InUnitInterval(c) == ~c.nan /\ 0 <= c.v /\ c.v <= SCALE

\* C1: when the subject frame, filtered to dates on or before the requested
\* date, has fewer rows than lookback_days, predict returns
\* ForecastResult(False, 0.0), raises nothing and never runs the forecast,
\* whatever the benchmark frame holds.
C1_InsufficientData ==
    (pc = "done" /\ fetched.outcome = "frames"
        /\ FilteredLen(fetched.stock) < lookback_days)
    => /\ result = ForecastResult(FALSE, Zero)
       /\ raised = "none"
       /\ forecast_calls = 0

C1_Witness ==
    /\ pc = "done" /\ fetched.outcome = "frames"
    /\ args.lookback.given /\ lookback_days = MaxLookback
    /\ FilteredLen(fetched.stock) = lookback_days - 1
    /\ fetched.sp500 = <<>>
    /\ result = ForecastResult(FALSE, Zero)

\* C2: for valid inputs (lookback_days >= 1, horizon_days >= 1, both series
\* with at least lookback_days positive prices) predict returns a boolean
\* prediction and a finite confidence in [0, 1]; so does every call of
\* _calculate_confidence.
ValidParameters ==
    /\ args.lookback.given => args.lookback.val >= 1
    /\ args.horizon.given => args.horizon.val >= 1

C2_ValidInputs ==
    /\ fetched.outcome = "frames"
    /\ ValidParameters
    /\ FilteredLen(fetched.stock) >= lookback_days
    /\ FilteredLen(fetched.sp500) >= lookback_days

C2_ConfidenceInUnitInterval ==
    /\ (pc = "done" /\ C2_ValidInputs)
       => /\ raised = "none"
          /\ result.returned
          /\ result.prediction \in BOOLEAN
          /\ InUnitInterval(result.confidence)
    /\ (pc = "unit_done" /\ unit.fn = "_calculate_confidence")
       => InUnitInterval(unit.ret)

\* C3: with len(prices) >= W, W >= 1 and S >= 0, _roll_forward_forecast
\* returns exactly S values, the j-th being the mean of the last W elements
\* of prices followed by the first j-1 returned values.
C3_RollForward ==
    (pc = "unit_done" /\ unit.fn = "_roll_forward_forecast"
        /\ unit.window >= 1 /\ Len(unit.prices) >= unit.window /\ unit.steps >= 0)
    => /\ unit.raised = "none"
       /\ Len(unit.ret_list) = unit.steps
       /\ \A j \in 1..unit.steps :
            LET working == unit.prices \o SubSeq(unit.ret_list, 1, j - 1)
                lastW == SubSeq(working, Len(working) - unit.window + 1, Len(working))
            IN unit.ret_list[j] = NpMean(lastW)

C3_Witness ==
    /\ pc = "unit_done" /\ unit.fn = "_roll_forward_forecast"
    /\ unit.window = 2 /\ Len(unit.prices) > unit.window /\ unit.steps = 2
    /\ Len(unit.ret_list) = 2
    /\ unit.ret_list[1] # unit.ret_list[2]

\* C4: every call of _roll_forward_forecast with len(prices) < W raises and
\* returns no list (stated for S >= 0).
C4_WindowViolationRaises ==
    (pc = "unit_done" /\ unit.fn = "_roll_forward_forecast"
        /\ Len(unit.prices) < unit.window /\ unit.steps >= 0)
    => unit.raised = "ValueError"

\* C5: _cumulative_return gives 0.0 for an empty path whatever current is,
\* and for a non-empty path (last / current) - 1.0, the same for every path
\* with that last element.
C5_CumulativeReturn ==
    (pc = "unit_done" /\ unit.fn = "_cumulative_return")
    => LET path == unit.prices
           n == Len(path)
       IN /\ path = <<>> => (unit.raised = "none" /\ unit.ret = Zero)
          /\ (path # <<>> /\ unit.current.v # 0)
             => /\ unit.raised = "none"
                /\ unit.ret = F(TruncDiv(path[n].v * SCALE, unit.current.v) - SCALE)
                /\ \A other \in FloatLists :
                     (other # <<>> /\ other[Len(other)] = path[n])
                     => cumulative_return(unit.current, other).ret = unit.ret

C5_Witness ==
    /\ pc = "unit_done" /\ unit.fn = "_cumulative_return"
    /\ Len(unit.prices) = 2 /\ unit.prices[1] # unit.prices[2]
    /\ unit.current.v # 0
    /\ unit.raised = "none" /\ unit.ret.v > 0

C5_WitnessEmpty ==
    /\ pc = "unit_done" /\ unit.fn = "_cumulative_return"
    /\ unit.prices = <<>> /\ unit.current = Zero
    /\ unit.raised = "none" /\ unit.ret = Zero

\* C6: on the compute path prediction is True exactly when the spread
\* subject_cumulative_return - benchmark_cumulative_return is strictly
\* greater than 0; a spread of exactly zero gives False.
C6_StrictOutperformance ==
    Computed => /\ result.returned
                /\ result.prediction = (SpreadIsNumber /\ SpreadUnits > 0)

C6_Witness ==
    /\ Computed /\ SpreadIsNumber /\ SpreadUnits = 0
    /\ lookback_days = MaxLookback /\ Len(stock_close) = MaxLookback
    /\ result.prediction = FALSE

\* C7: a spread of exactly 0 gives confidence 0.0 (stated for the calls in
\* which the confidence is a number).
C7_ZeroSpreadZeroConfidence ==
    /\ (Computed /\ SpreadIsNumber /\ SpreadUnits = 0 /\ ~result.confidence.nan)
       => result.confidence = Zero
    /\ (pc = "unit_done" /\ unit.fn = "_calculate_confidence" /\ unit.spread = Zero
          /\ ~unit.ret.nan)
       => unit.ret = Zero

\* C8: whenever the fetch fails (it raises any exception, or hands back no
\* subject frame) predict returns ForecastResult(False, 0.0), nothing
\* propagates to the caller, and the fetch was invoked exactly once.
C8_FetchFailure ==
    /\ (pc = "done" /\ fetched.outcome # "frames")
       => /\ result = ForecastResult(FALSE, Zero)
          /\ raised = "none"
          /\ forecast_calls = 0
    /\ pc = "done" => fetch_calls = 1

C8_Witness ==
    /\ pc = "done" /\ fetched.outcome = "Exception"
    /\ result = ForecastResult(FALSE, Zero) /\ fetch_calls = 1

\* C9: a non-positive lookback_days or horizon_days given to predict, or a
\* non-positive window or steps given to _roll_forward_forecast, makes the
\* call raise and never yields a result.
C9_NonPositiveRaises ==
    /\ (pc = "done" /\ ((args.lookback.given /\ args.lookback.val <= 0)
                        \/ (args.horizon.given /\ args.horizon.val <= 0)))
       => (raised # "none" /\ ~result.returned)
    /\ (pc = "unit_done" /\ unit.fn = "_roll_forward_forecast"
          /\ (unit.window <= 0 \/ unit.steps <= 0))
       => unit.raised # "none"

\* the call with subject and benchmark exchanged
Swapped ==
    predict_outcome(fetched.stock, fetched.sp500, requested_date, lookback_days, horizon_days)

\* C10 as stated: exchanging subject and benchmark flips the prediction and
\* leaves the confidence unchanged, for every pair reaching the compute path
\* (stated here for valid lookback_days and horizon_days).
C10_SwapFlipsPrediction ==
    (Computed /\ Swapped.computed /\ ValidParameters)
    => /\ Swapped.result.confidence = result.confidence
       /\ Swapped.result.prediction = ~result.prediction

\* C10 amended: exchanging subject and benchmark leaves the confidence
\* unchanged and flips the prediction exactly when the spread is a non-zero
\* number; with a spread of exactly zero (or NaN) both orders give False.
C10_SwapFlipsNonZeroSpread ==
    (Computed /\ Swapped.computed)
    => /\ Swapped.result.confidence = result.confidence
       /\ (SpreadIsNumber /\ SpreadUnits # 0)
          => Swapped.result.prediction = ~result.prediction
       /\ ~(SpreadIsNumber /\ SpreadUnits # 0)
          => (~Swapped.result.prediction /\ ~result.prediction)

C10_Witness ==
    /\ Computed /\ Swapped.computed
    /\ lookback_days = MaxLookback
    /\ SpreadIsNumber /\ SpreadUnits > 0
    /\ result.prediction /\ ~Swapped.result.prediction
    /\ InUnitInterval(result.confidence) /\ result.confidence.v < SCALE

\* the confidence the finished direct call would have returned for spread b
ConfidenceFor(b) ==
    calculate_confidence(unit.s_close, unit.i_close, b, unit.window, unit.steps)

\* the daily spread series and its standard deviation in the finished direct call
UnitSpreadHist == SpreadHist(unit.s_close, unit.i_close, unit.window)
UnitStd == Std(UnitSpreadHist)

\* C11: with the two series, lookback_days and horizon_days fixed,
\* _calculate_confidence is non-decreasing in |spread|: for spreads a and b
\* with |a| <= |b|, confidence(a) <= confidence(b).
C11_MonotoneInSpread ==
    (pc = "unit_done" /\ unit.fn = "_calculate_confidence")
    => \A b \in SpreadSamples :
         AbsInt(unit.spread.v) <= AbsInt(b.v)
         => /\ ~unit.ret.nan
            /\ ~ConfidenceFor(b).nan
            /\ unit.ret.v <= ConfidenceFor(b).v

\* C11 where the standard deviation is a number (two daily spread points or
\* more): the order of the confidences follows the order of |spread|.
C11_MonotoneWhereStdIsNumber ==
    (pc = "unit_done" /\ unit.fn = "_calculate_confidence" /\ ~UnitStd.nan)
    => \A b \in SpreadSamples :
         AbsInt(unit.spread.v) <= AbsInt(b.v)
         => /\ ~unit.ret.nan
            /\ ~ConfidenceFor(b).nan
            /\ unit.ret.v <= ConfidenceFor(b).v

\* C12: whenever the standard deviation of the recent daily spread series is
\* NaN or <= 0, the denominator is the floor 1e-4 and the returned
\* confidence is a number.
C12_FloorOnDegenerateStd ==
    (pc = "unit_done" /\ unit.fn = "_calculate_confidence"
        /\ (UnitStd.nan \/ UnitStd.v <= 0))
    => /\ Denom(UnitSpreadHist) = VolFloor
       /\ ~unit.ret.nan

\* C12 for a standard deviation that is a number: a flat daily spread
\* (standard deviation 0) is replaced by the floor.
C12_FloorOnFlatSpread ==
    (pc = "unit_done" /\ unit.fn = "_calculate_confidence"
        /\ ~UnitStd.nan /\ UnitStd.v <= 0)
    => /\ Denom(UnitSpreadHist) = VolFloor
       /\ ~unit.ret.nan

\* predict is past its sufficiency check and has called the extrapolation
PastSufficiencyCheck == pc \in {"forecast", "done"} /\ forecast_calls = 1

\* C13: once predict has passed its sufficiency check the insufficient-window
\* error is never raised for either series and predict returns a
\* ForecastResult, also when the benchmark has fewer rows than the subject
\* (stated here for valid lookback_days and horizon_days and a benchmark
\* that is not empty).
C13_NoWindowErrorPastGate ==
    (PastSufficiencyCheck /\ ValidParameters /\ sp500_close # <<>>)
    => /\ raised # "ValueError"
       /\ pc = "done" => result.returned

\* C13 when the benchmark too has lookback_days rows: no error is raised and
\* predict returns a ForecastResult.
C13_NoWindowErrorBothSufficient ==
    (PastSufficiencyCheck /\ ValidParameters /\ Len(sp500_data) >= lookback_days)
    => /\ raised = "none"
       /\ pc = "done" => result.returned

====
